---- MODULE Spec2Model ----
(***************************************************************************)
(* Ticketify: the useTickets client store, the frontend service / api      *)
(* layers and the backend ticket controller, with the HTTP exchange        *)
(* between them as messages in flight.                                     *)
(*                                                                         *)
(* Conventions.  A nullable value is Null (<<>>) or Some(v) (<<v>>).       *)
(* A text value (title, ticket code) is a sequence of chunks; the chunk    *)
(* " " is white space, every other chunk is text that neither begins nor   *)
(* ends with white space.  A JS object is a record whose DOMAIN is the set *)
(* of its own properties.  Points in time are integers (day numbers,       *)
(* 2025-10-20 = 0).                                                        *)
(***************************************************************************)
EXTENDS Integers, Sequences, FiniteSets, TLC

VARIABLES
    tickets,        \* useTickets: useState<Ticket[]>
    loading,        \* useTickets: useState<boolean>
    error,          \* useTickets: useState<string | null>
    mounted,        \* the mount effect of useTickets has run
    calls,          \* store operations suspended at their await
    requests,       \* HTTP requests sent, not yet handled by the server, by call
    responses,      \* HTTP responses (or transport failures) not yet handled, by call
    serverTickets,  \* ticketController: let tickets = [...]
    clock,          \* the server's latest reading of new Date()
    nextId,         \* number of ids generateId has handed out
    nOps,           \* store operations invoked so far
    apiCalls,       \* number of fetch() invocations made by apiRequest
    ret,            \* the last store operation that completed, and its result
    board,          \* KanbanBoard: useState<Ticket[]>(initialTickets), Null while not rendered
    history,        \* what has happened so far: failed remote calls, overlapping calls, ...
    source,         \* the collection a direct call of the service layer reads
    svc             \* the last direct call of the service layer, and its result

vars == <<tickets, loading, error, mounted, calls, requests, responses,
          serverTickets, clock, nextId, nOps, apiCalls, ret,
          board, history, source, svc>>

serviceVars == <<source, svc>>

----------------------------------------------------------------------------
\* Bounds of the model

MaxOps == 3

MaxTicks == 1

StartClock == 30

----------------------------------------------------------------------------
\* Values

Null == <<>>

Some(v) == <<v>>

EmptyObject == [k \in {} |-> 0]

\* { ...a, ...b }
Spread(a, b) ==
    [k \in (DOMAIN a) \cup (DOMAIN b) |-> IF k \in DOMAIN b THEN b[k] ELSE a[k]]

\* the object without the given properties (rest destructuring / delete)
Omit(a, keys) == [k \in (DOMAIN a) \ keys |-> a[k]]

\* String.prototype.trim on a chunked text
RECURSIVE TrimStart(_)
TrimStart(s) ==
    IF s = <<>> THEN s
    ELSE IF Head(s) = " " THEN TrimStart(Tail(s)) ELSE s

RECURSIVE TrimEnd(_)
TrimEnd(s) ==
    IF s = <<>> THEN s
    ELSE IF s[Len(s)] = " " THEN TrimEnd(SubSeq(s, 1, Len(s) - 1)) ELSE s

Trim(s) == TrimEnd(TrimStart(s))

\* JS truthiness of a text property of an object
TruthyText(o, k) == k \in DOMAIN o /\ o[k] # <<>>

----------------------------------------------------------------------------
\* Backend: the in-memory collection the controller starts with

SeedTickets ==
    << [id |-> "1", ticketId |-> <<"TCK-001">>,
        title |-> <<"Implement user authentication">>, status |-> "SCHEDULED",
        completedAt |-> Null, createdAt |-> 12, updatedAt |-> 12,
        subtasks |-> <<>>],
       [id |-> "2", ticketId |-> <<"TCK-002">>,
        title |-> <<"Fix payment processing bug">>, status |-> "IN_PROGRESS",
        completedAt |-> Null, createdAt |-> 16, updatedAt |-> 21,
        subtasks |-> <<>>],
       [id |-> "3", ticketId |-> <<"TCK-003">>,
        title |-> <<"Design new dashboard UI">>, status |-> "ACTIVE",
        completedAt |-> Null, createdAt |-> 19, updatedAt |-> 23,
        subtasks |-> <<>>],
       [id |-> "4", ticketId |-> <<"TCK-004">>,
        title |-> <<"Update API documentation">>, status |-> "OVERDUE",
        completedAt |-> Null, createdAt |-> 0, updatedAt |-> 21,
        subtasks |-> <<>>],
       [id |-> "5", ticketId |-> <<"TCK-005">>,
        title |-> <<"Setup CI/CD pipeline">>, status |-> "COMPLETED",
        completedAt |-> Some(25), createdAt |-> 5, updatedAt |-> 25,
        subtasks |-> <<>>] >>

\* generateId(): time plus random suffix, modelled as a fresh id per call
GenIds == <<"g1", "g2", "g3", "g4", "g5", "g6">>

generateId(n) == GenIds[n + 1]

\* Array.prototype.findIndex by a predicate on the id; 0 stands for -1
FindIndexById(seq, id) ==
    IF \E i \in 1..Len(seq) : seq[i].id = id
    THEN CHOOSE i \in 1..Len(seq) :
            seq[i].id = id /\ \A j \in 1..(i - 1) : seq[j].id # id
    ELSE 0

\* Array.prototype.splice(index, 1)
Splice(seq, i) == SubSeq(seq, 1, i - 1) \o SubSeq(seq, i + 1, Len(seq))

Envelope(ok, data, err) == [success |-> ok, data |-> data, error |-> err]

HttpResponse(status, body) == [kind |-> "http", status |-> status, body |-> body]

----------------------------------------------------------------------------
\* Frontend: api.ts

NetworkErrorMessage == "Failed to fetch"

\* handleResponse: response.ok
ResponseOk(resp) == resp.status >= 200 /\ resp.status <= 299

\* JS truthiness of a nullable string property of the parsed error body
TruthyString(o, k) == k \in DOMAIN o /\ o[k] # Null /\ o[k][1] # ""

StatusString(status) ==
    CASE status = 400 -> "400"
      [] status = 404 -> "404"
      [] OTHER -> "500"

\* handleResponse: the message of the Error thrown for a non-ok response
handleResponseMessage(resp) ==
    IF TruthyString(resp.body, "message") THEN resp.body.message[1]
    ELSE IF TruthyString(resp.body, "error") THEN resp.body.error[1]
    ELSE "HTTP error! status: " \o StatusString(resp.status)

\* variant: the response is parsed without looking at response.ok
apiRequestNoOkCheck(resp) ==
    IF resp.kind = "neterr"
    THEN [threw |-> TRUE, message |-> NetworkErrorMessage, json |-> EmptyObject]
    ELSE [threw |-> FALSE, message |-> "", json |-> resp.body]

\* apiRequest: what the awaited call yields, as [threw, message, json]
apiRequestResult(resp) ==
    IF resp.kind = "neterr"
    THEN [threw |-> TRUE, message |-> NetworkErrorMessage, json |-> EmptyObject]
    ELSE IF ~ResponseOk(resp)
    THEN [threw |-> TRUE, message |-> handleResponseMessage(resp),
          json |-> EmptyObject]
    ELSE [threw |-> FALSE, message |-> "", json |-> resp.body]

\* api fetchTickets: response.data || []
apiFetchTickets(resp) ==
    LET r == apiRequestResult(resp) IN
    IF r.threw THEN [threw |-> TRUE, message |-> r.message, value |-> <<>>]
    ELSE [threw |-> FALSE, message |-> "",
          value |-> IF r.json.data = Null THEN <<>> ELSE r.json.data[1]]

\* api createTicket / updateTicket: throws when the response carries no data
apiTicketResult(resp, fallback) ==
    LET r == apiRequestResult(resp) IN
    IF r.threw THEN [threw |-> TRUE, message |-> r.message, value |-> Null]
    ELSE IF r.json.data = Null
    THEN [threw |-> TRUE, message |-> fallback, value |-> Null]
    ELSE [threw |-> FALSE, message |-> "", value |-> r.json.data]

apiCreateTicket(resp) == apiTicketResult(resp, "Failed to create ticket")

apiUpdateTicket(resp) == apiTicketResult(resp, "Failed to update ticket")

\* variant: the whole payload is serialised, id included
WholePayloadBody(ticketData) == ticketData

\* api updateTicket: const { id, ...updateData } = ticketData
UpdateRequestBody(ticketData) == Omit(ticketData, {"id"})

\* api deleteTicket: the response body is ignored
apiDeleteTicket(resp) == apiRequestResult(resp)

----------------------------------------------------------------------------
\* Frontend: ticketService.ts

\* variant: only the title is validated
TitleOnlyValidationMessage(ticketData) ==
    IF ~TruthyText(ticketData, "title") \/ Len(Trim(ticketData.title)) = 0
    THEN "Ticket title is required"
    ELSE ""

\* createTicket: the message of the validation Error, or "" when valid
CreateValidationMessage(ticketData) ==
    IF ~TruthyText(ticketData, "title") \/ Len(Trim(ticketData.title)) = 0
    THEN "Ticket title is required"
    ELSE IF ~TruthyText(ticketData, "ticketId")
            \/ Len(Trim(ticketData.ticketId)) = 0
    THEN "Ticket ID is required"
    ELSE ""

\* createTicket: ticketWithDefaults
ticketWithDefaults(ticketData) ==
    Spread(ticketData,
           [status |-> IF "status" \in DOMAIN ticketData /\ ticketData.status # ""
                       THEN ticketData.status ELSE "SCHEDULED",
            subtasks |-> IF "subtasks" \in DOMAIN ticketData
                         THEN ticketData.subtasks ELSE <<>>])

\* updateTicket: the message of the validation Error, or "" when valid
UpdateValidationMessage(ticketData) ==
    IF ~("id" \in DOMAIN ticketData) \/ ticketData.id = ""
    THEN "Ticket ID is required for update"
    ELSE ""

----------------------------------------------------------------------------
\* Inputs the presentation layer may hand to the store

NoSuchId == "zz"

CreateInputs ==
    { [ticketId |-> c, title |-> t] :
        c \in {<<>>, <<" ">>, <<"TCK-100">>}, t \in {<<>>, <<" ">>, <<"X">>} }
    \cup { [ticketId |-> <<"TCK-101">>, title |-> <<"X">>, status |-> "COMPLETED",
             subtasks |-> <<[text |-> "a", completed |-> TRUE]>>] }

UpdateFields ==
    { [status |-> "COMPLETED"],
      [status |-> "ACTIVE"],
      [ticketId |-> <<"TCK-002">>, title |-> <<"Y">>, createdAt |-> 1,
       updatedAt |-> 2] }

\* the seed tickets the modelled user acts on
TargetSeeds == {"1"}

\* ids of tickets on screen that the presentation layer can name
ScreenIds ==
    { tickets[i].id : i \in { j \in 1..Len(tickets) :
             tickets[j].id \in TargetSeeds \/ tickets[j].id \notin
                { SeedTickets[k].id : k \in 1..Len(SeedTickets) } } }

\* ids the presentation layer can name: "", an unknown one, and those on screen
TargetIds == {"", NoSuchId} \cup ScreenIds

UpdateInputs ==
    { Spread([id |-> i], f) : i \in ScreenIds, f \in UpdateFields }
    \cup { [id |-> i, status |-> "ACTIVE"] : i \in {"", NoSuchId} }

----------------------------------------------------------------------------
\* Initial state: the hook's useState values, the controller's seed data

StoreInit ==
    /\ tickets = <<>>
    /\ loading = TRUE
    /\ error = Null
    /\ mounted = FALSE
    /\ calls = {}
    /\ requests = EmptyObject
    /\ responses = EmptyObject
    /\ serverTickets = SeedTickets
    /\ clock = StartClock
    /\ nextId = 0
    /\ nOps = 0
    /\ apiCalls = 0
    /\ ret = [cid |-> 0, op |-> "none", outcome |-> "none",
              ticket |-> Null, flag |-> FALSE]
    /\ board = Null
    /\ history = [failed |-> FALSE, overlapped |-> FALSE, removed |-> {},
                  dropped |-> {}]

\* no direct call of the service layer has been made
NoCall == [fn |-> "none", filters |-> Null, now |-> 0, threw |-> FALSE,
           value |-> <<>>]

Init ==
    /\ StoreInit
    /\ source = <<>>
    /\ svc = NoCall

\* Dashboard: the KanbanBoard is rendered only when neither loading nor error
\* is set, and its useState keeps the tickets it was first rendered with
Rendered ==
    board' = IF loading' \/ error' # Null THEN Null
             ELSE IF board = Null THEN Some(tickets')
             ELSE board

\* a store operation is invoked, maybe while others are still in flight
Invoked ==
    history' = [history EXCEPT !.overlapped = @ \/ calls # {}]

\* a store operation returned from its await
Logged(c) ==
    history' = [history EXCEPT
        !.failed = @ \/ ret'.outcome = "failed",
        !.removed = IF ret'.op = "remove" /\ ret'.outcome = "ok"
                    THEN @ \cup {c.id} ELSE @]

\* apiRequest: one fetch() of the given method, path parameter and JSON body
Send(cid, method, id, body) ==
    /\ requests' = Spread(requests,
          cid :> [method |-> method, id |-> id, body |-> body])
    /\ apiCalls' = apiCalls + 1

Returned(cid, op, outcome, ticket, flag) ==
    [cid |-> cid, op |-> op, outcome |-> outcome, ticket |-> ticket, flag |-> flag]

----------------------------------------------------------------------------
\* useTickets: the part of each operation that runs before its await

\* fetchTickets up to the await of fetchTicketsService()
FetchTicketsStart ==
    /\ nOps < MaxOps
    /\ nOps' = nOps + 1
    /\ loading' = TRUE
    /\ error' = Null
    /\ calls' = calls \cup {[cid |-> nOps + 1, op |-> "refresh", id |-> ""]}
    /\ Send(nOps + 1, "GET", "", EmptyObject)
    /\ UNCHANGED <<tickets, responses, serverTickets, clock, nextId, ret>>
    /\ Rendered
    /\ Invoked
    /\ UNCHANGED serviceVars

\* useEffect(() => { fetchTickets(); }, [fetchTickets])
Mount ==
    /\ ~mounted
    /\ mounted' = TRUE
    /\ FetchTicketsStart

\* refreshTickets()
Refresh ==
    /\ mounted
    /\ FetchTicketsStart
    /\ UNCHANGED mounted

\* addTicket(ticketData) up to the await, or to its end when validation throws
AddTicket(ticketData) ==
    /\ mounted
    /\ nOps < MaxOps
    /\ nOps' = nOps + 1
    /\ LET msg == CreateValidationMessage(ticketData) IN
       IF msg # ""
       THEN /\ error' = Some(msg)
            /\ ret' = Returned(nOps + 1, "create", "invalid", Null, FALSE)
            /\ UNCHANGED <<calls, requests, apiCalls>>
       ELSE /\ error' = Null
            /\ calls' = calls \cup {[cid |-> nOps + 1, op |-> "create", id |-> ""]}
            /\ Send(nOps + 1, "POST", "", ticketWithDefaults(ticketData))
            /\ UNCHANGED ret
    /\ UNCHANGED <<tickets, loading, mounted, responses, serverTickets, clock, nextId>>
    /\ Rendered
    /\ Invoked
    /\ UNCHANGED serviceVars

\* updateTicket(ticketData) up to the await, or to its end when validation throws
UpdateTicket(ticketData) ==
    /\ mounted
    /\ nOps < MaxOps
    /\ nOps' = nOps + 1
    /\ LET msg == UpdateValidationMessage(ticketData) IN
       IF msg # ""
       THEN /\ error' = Some(msg)
            /\ ret' = Returned(nOps + 1, "update", "invalid", Null, FALSE)
            /\ UNCHANGED <<calls, requests, apiCalls>>
       ELSE /\ error' = Null
            /\ calls' = calls \cup
                  {[cid |-> nOps + 1, op |-> "update", id |-> ticketData.id]}
            /\ Send(nOps + 1, "PUT", ticketData.id, UpdateRequestBody(ticketData))
            /\ UNCHANGED ret
    /\ UNCHANGED <<tickets, loading, mounted, responses, serverTickets, clock, nextId>>
    /\ Rendered
    /\ Invoked
    /\ UNCHANGED serviceVars

\* deleteTicket(ticketId) up to the await
DeleteTicket(ticketId) ==
    /\ mounted
    /\ nOps < MaxOps
    /\ nOps' = nOps + 1
    /\ error' = Null
    /\ calls' = calls \cup {[cid |-> nOps + 1, op |-> "remove", id |-> ticketId]}
    /\ Send(nOps + 1, "DELETE", ticketId, EmptyObject)
    /\ UNCHANGED <<tickets, loading, mounted, responses, serverTickets, clock,
                   nextId, ret>>
    /\ Rendered
    /\ Invoked
    /\ UNCHANGED serviceVars

----------------------------------------------------------------------------
\* KanbanBoard on the Dashboard

\* the column a card can be dropped on
DropStatuses == {"COMPLETED"}

\* ids of the cards that can be dragged: shown once, a generated id or a target seed
BoardIds ==
    IF board = Null THEN {}
    ELSE { board[1][i].id : i \in { j \in 1..Len(board[1]) :
             /\ \/ board[1][j].id \in TargetSeeds
                \/ board[1][j].id \notin
                      { SeedTickets[k].id : k \in 1..Len(SeedTickets) }
             /\ \A k \in 1..Len(board[1]) :
                   board[1][k].id = board[1][j].id => k = j } }

\* handleDrop's updater: the card gets the new status at once; the browser
\* reads the wall clock the server read last
DroppedTicket(ticket, newStatus) ==
    Spread(ticket,
           [status |-> newStatus,
            updatedAt |-> clock,
            completedAt |-> IF newStatus = "COMPLETED" THEN Some(clock)
                            ELSE ticket.completedAt])

\* handleDrop(ticketId, newStatus), with onTicketUpdate = handleTicketUpdate,
\* up to the await inside updateTicket
HandleDrop(ticketId, newStatus) ==
    /\ board # Null
    /\ nOps < MaxOps
    /\ nOps' = nOps + 1
    /\ board' = Some([i \in 1..Len(board[1]) |->
                        IF board[1][i].id = ticketId
                        THEN DroppedTicket(board[1][i], newStatus)
                        ELSE board[1][i]])
    /\ error' = Null
    /\ calls' = calls \cup {[cid |-> nOps + 1, op |-> "update", id |-> ticketId]}
    /\ Send(nOps + 1, "PUT", ticketId,
            UpdateRequestBody([id |-> ticketId, status |-> newStatus]))
    /\ history' = [history EXCEPT !.overlapped = @ \/ calls # {},
                                  !.dropped = @ \cup {nOps + 1}]
    /\ UNCHANGED <<tickets, loading, mounted, responses, serverTickets, clock,
                   nextId, ret>>
    /\ UNCHANGED serviceVars

----------------------------------------------------------------------------
\* Backend: ticketController.js behind routes/tickets.js and server.js

Respond(cid, status, body) ==
    /\ requests' = Omit(requests, {cid})
    /\ responses' = Spread(responses, cid :> HttpResponse(status, body))

\* new Date(): the times the server may read next; time does not run backwards
Now == { t \in clock..(clock + 1) : t <= StartClock + MaxTicks }

\* createTicket: the ticket built from req.body at time now
NewTicket(body, id, now) ==
    [id |-> id,
     ticketId |-> body.ticketId,
     title |-> body.title,
     status |-> IF "status" \in DOMAIN body /\ body.status # ""
                THEN body.status ELSE "SCHEDULED",
     completedAt |-> Null,
     createdAt |-> now,
     updatedAt |-> now,
     subtasks |-> IF "subtasks" \in DOMAIN body THEN body.subtasks ELSE <<>>]

\* variant: only delete updateData.id
StripIdOnly(updateData) == Omit(updateData, {"id"})

\* variant: the ticket code is deleted from the payload as well
StripProtectedAndCode(updateData) == Omit(updateData, {"id", "createdAt", "ticketId"})

\* updateTicket: delete updateData.id; delete updateData.createdAt
StripProtected(updateData) == Omit(updateData, {"id", "createdAt"})

\* variant: completedAt is cleared when the new status is not COMPLETED
UpdatedTicketClearing(old, body, now) ==
    LET updateData == StripProtected(body) IN
    Spread(Spread(old, updateData),
           [updatedAt |-> now,
            completedAt |-> IF "status" \in DOMAIN updateData
                               /\ updateData.status = "COMPLETED"
                            THEN Some(now) ELSE Null])

\* variant: the payload is spread last, so its updatedAt wins over the stamp
UpdatedTicketPayloadLast(old, body, now) ==
    LET updateData == StripProtected(body) IN
    Spread(Spread(old,
                  [updatedAt |-> now,
                   completedAt |-> IF "status" \in DOMAIN updateData
                                      /\ updateData.status = "COMPLETED"
                                   THEN Some(now) ELSE old.completedAt]),
           updateData)

\* updateTicket: the merged ticket at time now
UpdatedTicket(old, body, now) ==
    LET updateData == StripProtected(body) IN
    Spread(Spread(old, updateData),
           [updatedAt |-> now,
            completedAt |-> IF "status" \in DOMAIN updateData
                               /\ updateData.status = "COMPLETED"
                            THEN Some(now) ELSE old.completedAt])

\* GET /api/tickets
getTickets(cid) ==
    LET r == requests[cid] IN
    /\ r.method = "GET"
    /\ Respond(cid, 200, Envelope(TRUE, Some(serverTickets), Null))
    /\ UNCHANGED <<serverTickets, nextId, clock>>

\* POST /api/tickets
createTicket(cid) ==
    LET r == requests[cid] IN
    /\ r.method = "POST"
    /\ IF ~TruthyText(r.body, "ticketId") \/ ~TruthyText(r.body, "title")
       THEN /\ Respond(cid, 400,
                  Envelope(FALSE, Null, Some("Ticket ID and title are required")))
            /\ UNCHANGED <<serverTickets, nextId, clock>>
       ELSE IF \E i \in 1..Len(serverTickets) :
                  serverTickets[i].ticketId = r.body.ticketId
       THEN /\ Respond(cid, 400,
                  Envelope(FALSE, Null, Some("Ticket ID already exists")))
            /\ UNCHANGED <<serverTickets, nextId, clock>>
       ELSE \E now \in Now :
            LET newTicket == NewTicket(r.body, generateId(nextId), now) IN
            /\ clock' = now
            /\ serverTickets' = Append(serverTickets, newTicket)
            /\ nextId' = nextId + 1
            /\ Respond(cid, 201, Envelope(TRUE, Some(newTicket), Null))

\* PUT /api/tickets/:id
updateTicket(cid) ==
    LET r == requests[cid] IN
    /\ r.method = "PUT"
    /\ r.id # ""
    /\ LET ticketIndex == FindIndexById(serverTickets, r.id) IN
       IF ticketIndex = 0
       THEN /\ Respond(cid, 404, Envelope(FALSE, Null, Some("Ticket not found")))
            /\ UNCHANGED <<serverTickets, clock>>
       ELSE \E now \in Now :
            LET updatedTicket ==
                    UpdatedTicket(serverTickets[ticketIndex], r.body, now) IN
            /\ clock' = now
            /\ serverTickets' = [serverTickets EXCEPT ![ticketIndex] = updatedTicket]
            /\ Respond(cid, 200, Envelope(TRUE, Some(updatedTicket), Null))
    /\ UNCHANGED nextId

\* variant: the index is not checked, and splice(-1, 1) drops the last ticket
deleteTicketUnchecked(cid) ==
    LET r == requests[cid] IN
    /\ r.method = "DELETE"
    /\ r.id # ""
    /\ LET ticketIndex == FindIndexById(serverTickets, r.id) IN
       /\ serverTickets' = IF ticketIndex = 0
                           THEN SubSeq(serverTickets, 1, Len(serverTickets) - 1)
                           ELSE Splice(serverTickets, ticketIndex)
       /\ Respond(cid, 200,
             Envelope(TRUE,
                 Some([message |-> "Ticket deleted successfully"]), Null))
    /\ UNCHANGED <<nextId, clock>>

\* DELETE /api/tickets/:id
deleteTicket(cid) ==
    LET r == requests[cid] IN
    /\ r.method = "DELETE"
    /\ r.id # ""
    /\ LET ticketIndex == FindIndexById(serverTickets, r.id) IN
       IF ticketIndex = 0
       THEN /\ Respond(cid, 404, Envelope(FALSE, Null, Some("Ticket not found")))
            /\ UNCHANGED serverTickets
       ELSE /\ serverTickets' = Splice(serverTickets, ticketIndex)
            /\ Respond(cid, 200,
                  Envelope(TRUE,
                      Some([message |-> "Ticket deleted successfully"]), Null))
    /\ UNCHANGED <<nextId, clock>>

\* server.js 404 handler: DELETE /api/tickets/ matches no route of the router
routeNotFound(cid) ==
    LET r == requests[cid] IN
    /\ r.method = "DELETE"
    /\ r.id = ""
    /\ Respond(cid, 404, [success |-> FALSE, error |-> Some("Route not found"),
                        path |-> "/api/tickets/"])
    /\ UNCHANGED <<serverTickets, nextId, clock>>

ServerHandle(cid) ==
    /\ \/ getTickets(cid)
       \/ createTicket(cid)
       \/ updateTicket(cid)
       \/ deleteTicket(cid)
       \/ routeNotFound(cid)
    /\ UNCHANGED <<tickets, loading, error, mounted, calls, nOps, apiCalls, ret,
                   board, history, source, svc>>

\* fetch() rejects: the request never arrives, or its response is lost
TransportFailure(cid) ==
    /\ \/ /\ cid \in DOMAIN requests
          /\ requests' = Omit(requests, {cid})
          /\ responses' = Spread(responses, cid :> [kind |-> "neterr"])
       \/ /\ cid \in DOMAIN responses
          /\ responses[cid].kind = "http"
          /\ responses' = Spread(responses, cid :> [kind |-> "neterr"])
          /\ UNCHANGED requests
    /\ UNCHANGED <<tickets, loading, error, mounted, calls, serverTickets, clock,
                   nextId, nOps, apiCalls, ret, board, history, source, svc>>

----------------------------------------------------------------------------
\* useTickets: the part of each operation that runs after its await

Resume(c) ==
    /\ c \in calls
    /\ c.cid \in DOMAIN responses
    /\ calls' = calls \ {c}
    /\ responses' = Omit(responses, {c.cid})
    /\ UNCHANGED <<mounted, requests, serverTickets, clock, nextId, nOps, apiCalls>>

\* prevTickets.map((ticket) => (ticket.id === updatedTicket.id ? updatedTicket : ticket))
ReplaceById(prevTickets, updatedTicket) ==
    [i \in 1..Len(prevTickets) |->
        IF prevTickets[i].id = updatedTicket.id THEN updatedTicket
        ELSE prevTickets[i]]

\* prevTickets.filter((ticket) => ticket.id !== ticketId)
RECURSIVE RemoveById(_, _)
RemoveById(prevTickets, ticketId) ==
    IF prevTickets = <<>> THEN <<>>
    ELSE IF Head(prevTickets).id # ticketId
         THEN <<Head(prevTickets)>> \o RemoveById(Tail(prevTickets), ticketId)
         ELSE RemoveById(Tail(prevTickets), ticketId)

\* variant: the catch block also empties the collection
FetchTicketsResumeClearing(c) ==
    /\ c.op = "refresh"
    /\ Resume(c)
    /\ LET r == apiFetchTickets(responses[c.cid]) IN
       IF r.threw
       THEN /\ error' = Some(r.message)
            /\ ret' = Returned(c.cid, "refresh", "failed", Null, FALSE)
            /\ tickets' = <<>>
       ELSE /\ tickets' = r.value
            /\ ret' = Returned(c.cid, "refresh", "ok", Null, FALSE)
            /\ UNCHANGED error
    /\ loading' = FALSE
    /\ Rendered
    /\ Logged(c)
    /\ UNCHANGED serviceVars

\* variant: the fetched list is appended to the collection instead of replacing it
FetchTicketsResumeAppending(c) ==
    /\ c.op = "refresh"
    /\ Resume(c)
    /\ LET r == apiFetchTickets(responses[c.cid]) IN
       IF r.threw
       THEN /\ error' = Some(r.message)
            /\ ret' = Returned(c.cid, "refresh", "failed", Null, FALSE)
            /\ UNCHANGED tickets
       ELSE /\ tickets' = tickets \o r.value
            /\ ret' = Returned(c.cid, "refresh", "ok", Null, FALSE)
            /\ UNCHANGED error
    /\ loading' = FALSE
    /\ Rendered
    /\ Logged(c)
    /\ UNCHANGED serviceVars

\* variant: setLoading(false) at the end of try, not in finally
FetchTicketsResumeNoFinally(c) ==
    /\ c.op = "refresh"
    /\ Resume(c)
    /\ LET r == apiFetchTickets(responses[c.cid]) IN
       IF r.threw
       THEN /\ error' = Some(r.message)
            /\ ret' = Returned(c.cid, "refresh", "failed", Null, FALSE)
            /\ UNCHANGED <<tickets, loading>>
       ELSE /\ tickets' = r.value
            /\ ret' = Returned(c.cid, "refresh", "ok", Null, FALSE)
            /\ loading' = FALSE
            /\ UNCHANGED error
    /\ Rendered
    /\ Logged(c)
    /\ UNCHANGED serviceVars

\* fetchTickets from the await to the end of its finally block
FetchTicketsResume(c) ==
    /\ c.op = "refresh"
    /\ Resume(c)
    /\ LET r == apiFetchTickets(responses[c.cid]) IN
       IF r.threw
       THEN /\ error' = Some(r.message)
            /\ ret' = Returned(c.cid, "refresh", "failed", Null, FALSE)
            /\ UNCHANGED tickets
       ELSE /\ tickets' = r.value
            /\ ret' = Returned(c.cid, "refresh", "ok", Null, FALSE)
            /\ UNCHANGED error
    /\ loading' = FALSE
    /\ Rendered
    /\ Logged(c)
    /\ UNCHANGED serviceVars

\* variant: the new ticket is put in front of the collection
AddTicketResumePrepending(c) ==
    /\ c.op = "create"
    /\ Resume(c)
    /\ LET r == apiCreateTicket(responses[c.cid]) IN
       IF r.threw
       THEN /\ error' = Some(r.message)
            /\ ret' = Returned(c.cid, "create", "failed", Null, FALSE)
            /\ UNCHANGED tickets
       ELSE /\ tickets' = <<r.value[1]>> \o tickets
            /\ ret' = Returned(c.cid, "create", "ok", r.value, FALSE)
            /\ UNCHANGED error
    /\ UNCHANGED loading
    /\ Rendered
    /\ Logged(c)
    /\ UNCHANGED serviceVars

\* addTicket from the await to its return
AddTicketResume(c) ==
    /\ c.op = "create"
    /\ Resume(c)
    /\ LET r == apiCreateTicket(responses[c.cid]) IN
       IF r.threw
       THEN /\ error' = Some(r.message)
            /\ ret' = Returned(c.cid, "create", "failed", Null, FALSE)
            /\ UNCHANGED tickets
       ELSE /\ tickets' = tickets \o <<r.value[1]>>
            /\ ret' = Returned(c.cid, "create", "ok", r.value, FALSE)
            /\ UNCHANGED error
    /\ UNCHANGED loading
    /\ Rendered
    /\ Logged(c)
    /\ UNCHANGED serviceVars

\* variant: the matching entry is dropped and the returned ticket put last
UpdateTicketResumeMovingLast(c) ==
    /\ c.op = "update"
    /\ Resume(c)
    /\ LET r == apiUpdateTicket(responses[c.cid]) IN
       IF r.threw
       THEN /\ error' = Some(r.message)
            /\ ret' = Returned(c.cid, "update", "failed", Null, FALSE)
            /\ UNCHANGED tickets
       ELSE /\ tickets' = RemoveById(tickets, r.value[1].id) \o <<r.value[1]>>
            /\ ret' = Returned(c.cid, "update", "ok", r.value, FALSE)
            /\ UNCHANGED error
    /\ UNCHANGED loading
    /\ Rendered
    /\ Logged(c)
    /\ UNCHANGED serviceVars

\* variant: a returned ticket older than the local entry is not installed
UpdateTicketResumeKeepingNewer(c) ==
    /\ c.op = "update"
    /\ Resume(c)
    /\ LET r == apiUpdateTicket(responses[c.cid]) IN
       IF r.threw
       THEN /\ error' = Some(r.message)
            /\ ret' = Returned(c.cid, "update", "failed", Null, FALSE)
            /\ UNCHANGED tickets
       ELSE /\ tickets' = IF \E i \in 1..Len(tickets) :
                                /\ tickets[i].id = r.value[1].id
                                /\ tickets[i].updatedAt > r.value[1].updatedAt
                          THEN tickets
                          ELSE ReplaceById(tickets, r.value[1])
            /\ ret' = Returned(c.cid, "update", "ok", r.value, FALSE)
            /\ UNCHANGED error
    /\ UNCHANGED loading
    /\ Rendered
    /\ Logged(c)
    /\ UNCHANGED serviceVars

\* updateTicket from the await to its return
UpdateTicketResume(c) ==
    /\ c.op = "update"
    /\ Resume(c)
    /\ LET r == apiUpdateTicket(responses[c.cid]) IN
       IF r.threw
       THEN /\ error' = Some(r.message)
            /\ ret' = Returned(c.cid, "update", "failed", Null, FALSE)
            /\ UNCHANGED tickets
       ELSE /\ tickets' = ReplaceById(tickets, r.value[1])
            /\ ret' = Returned(c.cid, "update", "ok", r.value, FALSE)
            /\ UNCHANGED error
    /\ UNCHANGED loading
    /\ Rendered
    /\ Logged(c)
    /\ UNCHANGED serviceVars

\* variant: no catch around the await, a rejected call is raised to the caller
DeleteTicketResumeUncaught(c) ==
    /\ c.op = "remove"
    /\ Resume(c)
    /\ LET r == apiDeleteTicket(responses[c.cid]) IN
       IF r.threw
       THEN /\ ret' = Returned(c.cid, "remove", "raised", Null, FALSE)
            /\ UNCHANGED <<tickets, error>>
       ELSE /\ tickets' = RemoveById(tickets, c.id)
            /\ ret' = Returned(c.cid, "remove", "ok", Null, TRUE)
            /\ UNCHANGED error
    /\ UNCHANGED loading
    /\ Rendered
    /\ Logged(c)
    /\ UNCHANGED serviceVars

\* deleteTicket from the await to its return
DeleteTicketResume(c) ==
    /\ c.op = "remove"
    /\ Resume(c)
    /\ LET r == apiDeleteTicket(responses[c.cid]) IN
       IF r.threw
       THEN /\ error' = Some(r.message)
            /\ ret' = Returned(c.cid, "remove", "failed", Null, FALSE)
            /\ UNCHANGED tickets
       ELSE /\ tickets' = RemoveById(tickets, c.id)
            /\ ret' = Returned(c.cid, "remove", "ok", Null, TRUE)
            /\ UNCHANGED error
    /\ UNCHANGED loading
    /\ Rendered
    /\ Logged(c)
    /\ UNCHANGED serviceVars

----------------------------------------------------------------------------

Next ==
    \/ Mount
    \/ Refresh
    \/ \E ticketData \in CreateInputs : AddTicket(ticketData)
    \/ \E ticketData \in UpdateInputs : UpdateTicket(ticketData)
    \/ \E ticketId \in TargetIds : DeleteTicket(ticketId)
    \/ \E ticketId \in BoardIds, newStatus \in DropStatuses :
          HandleDrop(ticketId, newStatus)
    \/ \E cid \in DOMAIN requests : ServerHandle(cid)
    \/ \E cid \in 1..MaxOps : TransportFailure(cid)
    \/ \E c \in calls : FetchTicketsResume(c)
    \/ \E c \in calls : AddTicketResume(c)
    \/ \E c \in calls : UpdateTicketResume(c)
    \/ \E c \in calls : DeleteTicketResume(c)

Spec == Init /\ [][Next]_vars

\* the store driven with one create, one update and one remove payload
LoadingNext ==
    \/ Mount
    \/ Refresh
    \/ AddTicket([ticketId |-> <<"TCK-100">>, title |-> <<"X">>])
    \/ UpdateTicket([id |-> "1", status |-> "COMPLETED"])
    \/ DeleteTicket(NoSuchId)
    \/ \E cid \in DOMAIN requests : ServerHandle(cid)
    \/ \E cid \in 1..MaxOps : TransportFailure(cid)
    \/ \E c \in calls : FetchTicketsResume(c)
    \/ \E c \in calls : AddTicketResume(c)
    \/ \E c \in calls : UpdateTicketResume(c)
    \/ \E c \in calls : DeleteTicketResume(c)

\* every request sent is answered or fails, and the event loop runs every
\* continuation whose awaited call has settled
FairSpec ==
    /\ Init /\ [][LoadingNext]_vars
    /\ WF_vars(\E cid \in DOMAIN requests : ServerHandle(cid))
    /\ WF_vars(\E c \in calls : \/ FetchTicketsResume(c)
                                  \/ AddTicketResume(c)
                                  \/ UpdateTicketResume(c)
                                  \/ DeleteTicketResume(c))

----------------------------------------------------------------------------
\* The service layer called directly: fetchTickets(filters), getOverdueTickets
\* and the derived metadata of a ticket.  Here a text is a sequence of
\* one-character chunks.

\* longest collection the service reads
MaxLen == 2

storeVars == <<tickets, loading, error, mounted, calls, requests, responses,
               serverTickets, clock, nextId, nOps, apiCalls, ret, board, history>>

UpperCase == <<"A", "B", "C", "P", "T", "Z">>

LowerCase == <<"a", "b", "c", "p", "t", "z">>

\* String.prototype.toLowerCase
toLowerCase(s) ==
    [i \in 1..Len(s) |->
        IF \E k \in 1..Len(UpperCase) : UpperCase[k] = s[i]
        THEN LowerCase[CHOOSE k \in 1..Len(UpperCase) : UpperCase[k] = s[i]]
        ELSE s[i]]

\* String.prototype.includes
includes(s, sub) ==
    \E i \in 0..(Len(s) - Len(sub)) : SubSeq(s, i + 1, i + Len(sub)) = sub

\* Array.prototype.includes
arrayIncludes(arr, x) == \E i \in 1..Len(arr) : arr[i] = x

\* Array.prototype.join
RECURSIVE join(_, _)
join(parts, sep) ==
    IF parts = <<>> THEN <<>>
    ELSE IF Len(parts) = 1 THEN parts[1]
    ELSE parts[1] \o sep \o join(Tail(parts), sep)

\* filters.k && filters.k.length > 0 ; for a string, filters.k is truthy
Provided(filters, k) == k \in DOMAIN filters /\ Len(filters[k]) > 0

\* filters.assignedTo is truthy
ProvidedId(filters, k) == k \in DOMAIN filters /\ filters[k] # ""

\* [title, description, ticketId, customerName, csamName].join(' ').toLowerCase()
searchableText(ticket) ==
    toLowerCase(join(<<ticket.title, ticket.description, ticket.ticketId,
                       ticket.customerName, ticket.csamName>>, <<" ">>))

\* variant: every requested tag must be on the ticket
ticketPassesEveryTag(ticket, filters) ==
    IF Provided(filters, "status")
       /\ ~arrayIncludes(filters.status, ticket.status) THEN FALSE
    ELSE IF Provided(filters, "priority")
       /\ ~arrayIncludes(filters.priority, ticket.priority) THEN FALSE
    ELSE IF Provided(filters, "category")
       /\ ~arrayIncludes(filters.category, ticket.category) THEN FALSE
    ELSE IF Provided(filters, "csamName")
       /\ ~arrayIncludes(filters.csamName, ticket.csamName) THEN FALSE
    ELSE IF Provided(filters, "customerName")
       /\ ~includes(toLowerCase(ticket.customerName),
                    toLowerCase(filters.customerName)) THEN FALSE
    ELSE IF ProvidedId(filters, "assignedTo")
       /\ ticket.assignedTo # Some(filters.assignedTo) THEN FALSE
    ELSE IF Provided(filters, "tags")
       /\ ~\A k \in 1..Len(filters.tags) :
              arrayIncludes(ticket.tags, filters.tags[k]) THEN FALSE
    ELSE IF Provided(filters, "search")
       /\ ~includes(searchableText(ticket), toLowerCase(filters.search))
       THEN FALSE
    ELSE TRUE

\* the callback of tickets.filter in fetchTickets, with its early returns
ticketPasses(ticket, filters) ==
    IF Provided(filters, "status")
       /\ ~arrayIncludes(filters.status, ticket.status) THEN FALSE
    ELSE IF Provided(filters, "priority")
       /\ ~arrayIncludes(filters.priority, ticket.priority) THEN FALSE
    ELSE IF Provided(filters, "category")
       /\ ~arrayIncludes(filters.category, ticket.category) THEN FALSE
    ELSE IF Provided(filters, "csamName")
       /\ ~arrayIncludes(filters.csamName, ticket.csamName) THEN FALSE
    ELSE IF Provided(filters, "customerName")
       /\ ~includes(toLowerCase(ticket.customerName),
                    toLowerCase(filters.customerName)) THEN FALSE
    ELSE IF ProvidedId(filters, "assignedTo")
       /\ ticket.assignedTo # Some(filters.assignedTo) THEN FALSE
    ELSE IF Provided(filters, "tags")
       /\ ~\E k \in 1..Len(filters.tags) :
              arrayIncludes(ticket.tags, filters.tags[k]) THEN FALSE
    ELSE IF Provided(filters, "search")
       /\ ~includes(searchableText(ticket), toLowerCase(filters.search))
       THEN FALSE
    ELSE TRUE

\* tickets.filter((ticket) => { ... })
RECURSIVE filterTickets(_, _)
filterTickets(ts, filters) ==
    IF ts = <<>> THEN <<>>
    ELSE (IF ticketPasses(Head(ts), filters) THEN <<Head(ts)>> ELSE <<>>)
         \o filterTickets(Tail(ts), filters)

\* what an async function settles to
Resolved(value) == [threw |-> FALSE, value |-> value]

Rejected == [threw |-> TRUE, value |-> <<>>]

\* ticketService.fetchTickets(filters), given what apiFetchTickets settled to
fetchTickets(api, filters) ==
    IF api.threw THEN Rejected
    ELSE IF filters = Null THEN Resolved(api.value)
    ELSE Resolved(filterTickets(api.value, filters[1]))

\* tickets.filter(ticket => new Date(ticket.deadline) < new Date() && ...)
RECURSIVE filterPastDeadline(_, _)
filterPastDeadline(ts, now) ==
    IF ts = <<>> THEN <<>>
    ELSE (IF Head(ts).deadline < now /\ Head(ts).status # "COMPLETED"
          THEN <<Head(ts)>> ELSE <<>>)
         \o filterPastDeadline(Tail(ts), now)

\* ticketService.getOverdueTickets()
getOverdueTickets(api, now) ==
    LET fetched == fetchTickets(api, Some([status |-> <<"OVERDUE">>])) IN
    IF fetched.threw THEN Rejected
    ELSE Resolved(filterPastDeadline(fetched.value, now))

\* n / d as an exact fraction
Fraction(n, d) == [num |-> n, den |-> d]

\* subtasks.filter(s => s.completed).length
RECURSIVE completedCount(_)
completedCount(subtasks) ==
    IF subtasks = <<>> THEN 0
    ELSE (IF Head(subtasks).completed THEN 1 ELSE 0)
         + completedCount(Tail(subtasks))

\* variant: the division is made also when the ticket has no subtasks
withMetadataUnguarded(ticket, now) ==
    LET total == Len(ticket.subtasks)
        done == completedCount(ticket.subtasks) IN
    Spread(ticket,
           [isOverdue |-> now > ticket.deadline /\ ticket.status # "COMPLETED",
            daysUntilDeadline |-> ticket.deadline - now,
            completionPercentage |-> Fraction(100 * done, total),
            completedSubtasksCount |-> done,
            totalSubtasksCount |-> total])

\* TicketWithMetadata: the derived fields of a ticket at time now
withMetadata(ticket, now) ==
    LET total == Len(ticket.subtasks)
        done == completedCount(ticket.subtasks) IN
    Spread(ticket,
           [isOverdue |-> now > ticket.deadline /\ ticket.status # "COMPLETED",
            daysUntilDeadline |-> ticket.deadline - now,
            completionPercentage |-> IF total = 0 THEN Fraction(0, 1)
                                     ELSE Fraction(100 * done, total),
            completedSubtasksCount |-> done,
            totalSubtasksCount |-> total])

MetadataFields == {"isOverdue", "daysUntilDeadline", "completionPercentage",
                   "completedSubtasksCount", "totalSubtasksCount"}

Subtask(id, completed) ==
    [id |-> id, text |-> "t", completed |-> completed,
     completedAt |-> IF completed THEN Some(20) ELSE Null]

\* tickets the remote collection may hold
ServiceTickets ==
    << [id |-> "s1", ticketId |-> <<"T", "1">>, title |-> <<"P", "a", "y">>,
        description |-> <<"x">>, status |-> "SCHEDULED", priority |-> "HIGH",
        category |-> "Bug", csamName |-> <<"A", "l">>,
        customerName |-> <<"A", "c">>, assignedTo |-> Some("u1"),
        tags |-> <<"api", "ui">>, deadline |-> 20, subtasks |-> <<>>],
       [id |-> "s2", ticketId |-> <<"T", "2">>, title |-> <<"b">>,
        description |-> <<"p", "a">>, status |-> "COMPLETED", priority |-> "LOW",
        category |-> "Bug", csamName |-> <<"B">>,
        customerName |-> <<"a", "b">>, assignedTo |-> Null,
        tags |-> <<>>, deadline |-> 20,
        subtasks |-> <<Subtask("a", TRUE), Subtask("b", FALSE),
                       Subtask("c", TRUE), Subtask("d", FALSE)>>],
       [id |-> "s3", ticketId |-> <<"T", "3">>, title |-> <<"c">>,
        description |-> <<>>, status |-> "OVERDUE", priority |-> "HIGH",
        category |-> "Feature", csamName |-> <<"A", "l">>,
        customerName |-> <<"Z">>, assignedTo |-> Some("u2"),
        tags |-> <<"ui">>, deadline |-> 30,
        subtasks |-> <<Subtask("a", FALSE), Subtask("b", TRUE),
                       Subtask("c", FALSE)>>],
       [id |-> "s4", ticketId |-> <<"T", "4">>, title |-> <<"z">>,
        description |-> <<"z">>, status |-> "ACTIVE", priority |-> "MEDIUM",
        category |-> "General", csamName |-> <<>>,
        customerName |-> <<>>, assignedTo |-> Null,
        tags |-> <<"db">>, deadline |-> 10,
        subtasks |-> <<Subtask("a", TRUE), Subtask("b", TRUE)>>],
       [id |-> "s5", ticketId |-> <<"T", "5">>, title |-> <<"a">>,
        description |-> <<"y">>, status |-> "OVERDUE", priority |-> "URGENT",
        category |-> "Bug", csamName |-> <<"B">>,
        customerName |-> <<"c", "a">>, assignedTo |-> Some("u1"),
        tags |-> <<"api">>, deadline |-> 40, subtasks |-> <<>>] >>

\* the collections of at most MaxLen tickets
Collections ==
    UNION { [1..n -> { ServiceTickets[k] : k \in 1..Len(ServiceTickets) }] :
            n \in 0..MaxLen }

\* the filters argument: undefined, or a TicketFilters object
FilterInputs ==
    << Null,
       Some(EmptyObject),
       Some([status |-> <<"COMPLETED">>]),
       Some([status |-> <<"OVERDUE", "ACTIVE">>]),
       Some([status |-> <<>>, priority |-> <<"HIGH">>]),
       Some([category |-> <<"Bug">>]),
       Some([csamName |-> << <<"A", "l">> >>]),
       Some([customerName |-> <<"a">>]),
       Some([customerName |-> <<"A", "C">>]),
       Some([customerName |-> <<>>, assignedTo |-> ""]),
       Some([assignedTo |-> "u1"]),
       Some([tags |-> <<"ui", "db">>]),
       Some([tags |-> <<"zz">>]),
       Some([search |-> <<"P", "A">>]),
       Some([search |-> <<"a", " ", "y">>]),
       Some([search |-> <<"t", "1">>]),
       Some([status |-> <<"OVERDUE", "SCHEDULED">>, priority |-> <<"HIGH">>,
             tags |-> <<"ui">>, search |-> <<"a", "l">>]) >>

ServiceInit ==
    /\ StoreInit
    /\ source \in Collections
    /\ svc = NoCall

\* apiFetchTickets(): resolves to the remote collection, or rejects
ApiOutcomes == {Resolved(source), Rejected}

\* a caller awaits fetchTickets(filters)
CallFetchTickets(filters) ==
    /\ \E api \in ApiOutcomes :
          LET r == fetchTickets(api, filters) IN
          svc' = [fn |-> "fetchTickets", filters |-> filters, now |-> 0,
                  threw |-> r.threw, value |-> r.value]
    /\ UNCHANGED <<source, storeVars>>

\* a caller awaits getOverdueTickets()
CallGetOverdueTickets ==
    /\ \E api \in ApiOutcomes, now \in StartClock..(StartClock + MaxTicks) :
          LET r == getOverdueTickets(api, now) IN
          svc' = [fn |-> "getOverdueTickets", filters |-> Null, now |-> now,
                  threw |-> r.threw, value |-> r.value]
    /\ UNCHANGED <<source, storeVars>>

\* the derived fields of the i-th ticket are computed
ComputeMetadata(i) ==
    /\ \E now \in StartClock..(StartClock + MaxTicks) :
          svc' = [fn |-> "withMetadata", filters |-> Null, now |-> now,
                  threw |-> FALSE, value |-> <<withMetadata(source[i], now)>>]
    /\ UNCHANGED <<source, storeVars>>

ServiceNext ==
    \/ \E k \in 1..Len(FilterInputs) : CallFetchTickets(FilterInputs[k])
    \/ CallGetOverdueTickets
    \/ \E i \in 1..Len(source) : ComputeMetadata(i)

ServiceSpec == ServiceInit /\ [][ServiceNext]_vars


----------------------------------------------------------------------------
\* Properties

\* the step is the server handling the request of call cid
ServerHandled(cid) ==
    /\ cid \in DOMAIN requests
    /\ cid \notin DOMAIN requests'
    /\ cid \in DOMAIN responses'
    /\ responses'[cid].kind = "http"

\* the step completes a store operation op with the given outcome
Completes(op, outcome) ==
    /\ ret'.cid # ret.cid
    /\ ret'.op = op
    /\ ret'.outcome = outcome

NoRemoteContact ==
    /\ apiCalls' = apiCalls
    /\ requests' = requests
    /\ serverTickets' = serverTickets

\* C1: no two entries of the local tickets collection have the same id, in
\* every reachable state of the store, for every interleaving of refresh,
\* create, update and remove calls with the arrival of their responses.
C1_LocalIdsUnique ==
    \A i, j \in 1..Len(tickets) : i # j => tickets[i].id # tickets[j].id

\* C2: no two tickets of the remote collection have the same ticket code,
\* after any sequence of create, update and delete requests.
C2_RemoteCodesUnique ==
    \A i, j \in 1..Len(serverTickets) :
        i # j => serverTickets[i].ticketId # serverTickets[j].ticketId

\* C3 as stated: a stored ticket's code never changes once it is created.
C3_CodeNeverChanges ==
    [][\A i \in 1..Len(serverTickets), j \in 1..Len(serverTickets') :
          serverTickets[i].id = serverTickets'[j].id
          => serverTickets'[j].ticketId = serverTickets[i].ticketId]_vars

\* C3: a stored ticket's code changes only when the controller handles an
\* update for it whose payload has a ticketId field, and then it becomes the
\* payload's value; every other step, and every update whose payload has no
\* ticketId field, leaves the code as it was.
C3_CodeChangesOnlyByPayload ==
    [][\A i \in 1..Len(serverTickets), j \in 1..Len(serverTickets') :
          serverTickets[i].id = serverTickets'[j].id
          => LET upd == { cid \in DOMAIN requests :
                            /\ ServerHandled(cid)
                            /\ requests[cid].method = "PUT"
                            /\ requests[cid].id = serverTickets[i].id
                            /\ "ticketId" \in DOMAIN requests[cid].body }
             IN IF upd # {}
                THEN \A cid \in upd :
                        serverTickets'[j].ticketId = requests[cid].body.ticketId
                ELSE serverTickets'[j].ticketId = serverTickets[i].ticketId]_vars

\* an update without a ticketId field was applied to ticket "1": code kept
C3_Witness ==
    \E i \in 1..Len(serverTickets) :
        /\ serverTickets[i].id = "1"
        /\ serverTickets[i].status = "ACTIVE"
        /\ serverTickets[i].ticketId = <<"TCK-001">>

\* C4: for every update payload the stored ticket keeps its id and its
\* createdAt, and both stay constant from creation until deletion.
C4_IdAndCreatedAtStable ==
    [][/\ \A i \in 1..Len(serverTickets), j \in 1..Len(serverTickets') :
             serverTickets[i].id = serverTickets'[j].id
             => serverTickets'[j].createdAt = serverTickets[i].createdAt
       /\ \A cid \in DOMAIN requests :
             ServerHandled(cid) /\ requests[cid].method = "PUT"
             => /\ Len(serverTickets') = Len(serverTickets)
                /\ \A k \in 1..Len(serverTickets) :
                      /\ serverTickets'[k].id = serverTickets[k].id
                      /\ serverTickets'[k].createdAt = serverTickets[k].createdAt]_vars

\* the update whose payload carries createdAt was applied to ticket "1"
C4_Witness ==
    \E i \in 1..Len(serverTickets) :
        /\ serverTickets[i].id = "1"
        /\ serverTickets[i].title = <<"Y">>
        /\ serverTickets[i].updatedAt >= StartClock
        /\ serverTickets[i].createdAt = 12

\* C5 as stated: the body of an update request has neither id nor createdAt.
C5_BodyWithoutIdAndCreatedAt ==
    \A cid \in DOMAIN requests :
        requests[cid].method = "PUT"
        => /\ "id" \notin DOMAIN requests[cid].body
           /\ "createdAt" \notin DOMAIN requests[cid].body

\* C5: the body of an update request never has an id field, and it is the
\* payload without its id: the id travels in the path.
C5_BodyWithoutId ==
    \A cid \in DOMAIN requests :
        requests[cid].method = "PUT"
        => /\ "id" \notin DOMAIN requests[cid].body
           /\ requests[cid].id # ""
           /\ requests[cid].body \in UpdateFields

\* an update whose payload holds createdAt is on its way to the server
C5_Witness ==
    \E cid \in DOMAIN requests :
        /\ requests[cid].method = "PUT"
        /\ "createdAt" \in DOMAIN requests[cid].body

\* C6: a refresh whose remote list call fails leaves tickets as it was and
\* sets lastError to a non-empty message.
C6_FailedRefreshKeepsTickets ==
    [][Completes("refresh", "failed")
       => /\ tickets' = tickets
          /\ error' # Null
          /\ error'[1] # ""]_vars

\* a refresh failed after an earlier one had loaded the collection
C6_Witness ==
    /\ ret.op = "refresh"
    /\ ret.outcome = "failed"
    /\ Len(tickets) > 0
    /\ error # Null

\* C7 as stated: right after a successful refresh response is handled, tickets
\* is the returned list and lastError is empty.
C7_RefreshOkClearsError ==
    [][Completes("refresh", "ok")
       => /\ tickets' = apiFetchTickets(responses[ret'.cid]).value
          /\ error' = Null]_vars

\* C7: right after a successful refresh response is handled, tickets is the
\* returned list and lastError is what it was just before: the refresh empties
\* lastError when it is issued, so lastError holds the message of any store
\* operation that failed while the refresh was in flight.
C7_RefreshOkReplacesTickets ==
    [][Completes("refresh", "ok")
       => /\ tickets' = apiFetchTickets(responses[ret'.cid]).value
          /\ error' = error]_vars

\* a refresh succeeded over a non-empty collection while lastError was set
C7_Witness ==
    /\ ret.op = "refresh"
    /\ ret.outcome = "ok"
    /\ nOps >= 2
    /\ Len(tickets) > 0
    /\ error # Null

\* C8: loading is true in every state in which a refresh is in flight.
C8_LoadingWhileRefreshInFlight ==
    (\E c \in calls : c.op = "refresh") => loading

\* C9: create with an empty title or an empty ticket code, and update with an
\* empty id, make no remote call, leave tickets unchanged, set lastError and
\* return null.
C9_ValidationFailureStaysLocal ==
    [][/\ \A ticketData \in CreateInputs :
             /\ AddTicket(ticketData)
             /\ ticketData.title = <<>> \/ ticketData.ticketId = <<>>
             => /\ NoRemoteContact
                /\ tickets' = tickets
                /\ error' # Null
                /\ Completes("create", "invalid")
                /\ ret'.ticket = Null
       /\ \A ticketData \in UpdateInputs :
             /\ UpdateTicket(ticketData)
             /\ ticketData.id = ""
             => /\ NoRemoteContact
                /\ tickets' = tickets
                /\ error' # Null
                /\ Completes("update", "invalid")
                /\ ret'.ticket = Null]_vars

\* a create was rejected by validation: only the mount refresh went out
C9_Witness ==
    /\ ret.op = "create"
    /\ ret.outcome = "invalid"
    /\ error # Null
    /\ apiCalls = 1
    /\ Len(tickets) > 0

\* C10: remove with an empty id makes no remote call, leaves tickets
\* unchanged and returns false.
C10_EmptyIdRemoveStaysLocal ==
    [][DeleteTicket("")
       => /\ NoRemoteContact
          /\ tickets' = tickets
          /\ Completes("remove", "invalid")
          /\ ret'.flag = FALSE]_vars

\* the step runs the suspended store operation c to its end
Resumed(c) == c \in calls /\ c \notin calls'

\* the remote call answered by resp failed: no response, or a non-2xx status
RemoteCallFailed(resp) == resp.kind = "neterr" \/ ~ResponseOk(resp)

NonEmptyMessage(e) == e # Null /\ e[1] # ""

\* C11: when the remote create call succeeds, tickets becomes the collection
\* it was with the returned ticket appended at the end, and create returns
\* that ticket.
C11_CreateAppendsReturnedTicket ==
    [][\A c \in calls :
          /\ c.op = "create"
          /\ Resumed(c)
          /\ ~RemoteCallFailed(responses[c.cid])
          => LET t == responses[c.cid].body.data[1] IN
             /\ Len(tickets') = Len(tickets) + 1
             /\ SubSeq(tickets', 1, Len(tickets)) = tickets
             /\ tickets'[Len(tickets')] = t
             /\ ret'.cid = c.cid
             /\ ret'.ticket = Some(t)]_vars

\* a create succeeded: its ticket is the last entry, after the loaded ones
C11_Witness ==
    /\ ret.op = "create"
    /\ ret.outcome = "ok"
    /\ Len(tickets) > 1
    /\ tickets[Len(tickets)] = ret.ticket[1]
    /\ tickets[1].id = "1"

\* C12: when the remote update call succeeds, every local entry whose id is
\* the returned ticket's id becomes the returned ticket; the length, the order
\* and every other entry are unchanged.
C12_UpdateReplacesMatchingEntry ==
    [][\A c \in calls :
          /\ c.op = "update"
          /\ Resumed(c)
          /\ ~RemoteCallFailed(responses[c.cid])
          => LET t == responses[c.cid].body.data[1] IN
             /\ Len(tickets') = Len(tickets)
             /\ \A i \in 1..Len(tickets) :
                   /\ tickets'[i].id = tickets[i].id
                   /\ tickets[i].id = t.id => tickets'[i] = t
                   /\ tickets[i].id # t.id => tickets'[i] = tickets[i]
             /\ ret'.ticket = Some(t)]_vars

\* an update succeeded: ticket "1" is still first and is the returned ticket
C12_Witness ==
    /\ ret.op = "update"
    /\ ret.outcome = "ok"
    /\ Len(tickets) = Len(SeedTickets)
    /\ tickets[1] = ret.ticket[1]
    /\ tickets[1] # SeedTickets[1]
    /\ tickets[2] = SeedTickets[2]

\* C13: when the remote call of a create, update or remove fails, that
\* operation leaves tickets unchanged, sets lastError to a non-empty message
\* and returns null (create, update) or false (remove).
C13_RemoteFailureKeepsTickets ==
    [][\A c \in calls :
          /\ c.op \in {"create", "update", "remove"}
          /\ Resumed(c)
          /\ RemoteCallFailed(responses[c.cid])
          => /\ tickets' = tickets
             /\ NonEmptyMessage(error')
             /\ ret'.cid = c.cid
             /\ ret'.outcome = "failed"
             /\ ret'.ticket = Null
             /\ ret'.flag = FALSE]_vars

\* an update was answered 404 by the controller
C13_Witness ==
    /\ ret.op = "update"
    /\ ret.outcome = "failed"
    /\ error = Some("Ticket not found")
    /\ Len(tickets) > 0

\* C14: a remove that succeeds for an id the collection holds removes exactly
\* one entry: the length drops by one, no entry with that id is left, the
\* other entries keep their order, and remove returns true.
C14_RemoveDropsExactlyOne ==
    [][\A c \in calls :
          /\ c.op = "remove"
          /\ Resumed(c)
          /\ ~RemoteCallFailed(responses[c.cid])
          /\ \E i \in 1..Len(tickets) : tickets[i].id = c.id
          => /\ Len(tickets') = Len(tickets) - 1
             /\ \A i \in 1..Len(tickets') : tickets'[i].id # c.id
             /\ \E k \in 1..Len(tickets) :
                   tickets' = SubSeq(tickets, 1, k - 1)
                              \o SubSeq(tickets, k + 1, Len(tickets))
             /\ ret'.flag = TRUE]_vars

\* C15: a remove for an id that no ticket of the remote collection has leaves
\* the remote collection unchanged and is answered 404; handling that answer
\* leaves tickets unchanged, sets lastError and returns false.
C15_RemoveUnknownIdChangesNothing ==
    [][/\ \A cid \in DOMAIN requests :
             /\ ServerHandled(cid)
             /\ requests[cid].method = "DELETE"
             /\ FindIndexById(serverTickets, requests[cid].id) = 0
             => /\ serverTickets' = serverTickets
                /\ responses'[cid].status = 404
       /\ \A c \in calls :
             /\ c.op = "remove"
             /\ Resumed(c)
             /\ responses[c.cid].kind = "http"
             /\ responses[c.cid].status = 404
             => /\ tickets' = tickets
                /\ NonEmptyMessage(error')
                /\ ret'.cid = c.cid
                /\ ret'.flag = FALSE]_vars

\* remove of the unknown id was refused: both collections are as loaded
C15_Witness ==
    /\ ret.op = "remove"
    /\ ret.outcome = "failed"
    /\ error = Some("Ticket not found")
    /\ serverTickets = SeedTickets
    /\ tickets = SeedTickets

C17_UpdatedNotBeforeCreated ==
    \A i \in 1..Len(serverTickets) :
        serverTickets[i].updatedAt >= serverTickets[i].createdAt

\* an update whose payload carried createdAt 1 and updatedAt 2 was applied,
\* and a ticket was created
C17_Witness ==
    /\ \E i \in 1..Len(serverTickets) :
          /\ serverTickets[i].id = "1"
          /\ serverTickets[i].title = <<"Y">>
          /\ serverTickets[i].updatedAt >= StartClock
          /\ serverTickets[i].createdAt < StartClock
          /\ serverTickets[i].createdAt # 1
    /\ Len(serverTickets) > Len(SeedTickets)

\* C18: every subtask of every ticket of the remote collection has a non-null
\* completedAt exactly when its completed flag is true.
C18_SubtaskCompletedAtIffCompleted ==
    \A i \in 1..Len(serverTickets) :
        \A j \in 1..Len(serverTickets[i].subtasks) :
            LET subtask == serverTickets[i].subtasks[j] IN
            ("completedAt" \in DOMAIN subtask /\ subtask.completedAt # Null)
                <=> subtask.completed

\* C19: the local entry of a ticket equals the ticket carried by the update
\* response that was handled last, also when two updates of that ticket were
\* in flight together and the remote applied them in the other order.
C19_LastHandledUpdateWins ==
    ret.op = "update" /\ ret.outcome = "ok"
    => \A i \in 1..Len(tickets) :
          tickets[i].id = ret.ticket[1].id => tickets[i] = ret.ticket[1]

\* two updates of ticket "1" raced and both succeeded: the remote applied the
\* first-issued one first, and its response was handled last, so the local
\* entry is that response's ticket and differs from the remote ticket
C19_Witness ==
    /\ calls = {}
    /\ nOps = 3
    /\ error = Null
    /\ ret.cid = 2
    /\ ret.op = "update"
    /\ ret.outcome = "ok"
    /\ tickets[1] = ret.ticket[1]
    /\ tickets[1].title # <<"Y">>
    /\ serverTickets[1].id = "1"
    /\ serverTickets[1].title = <<"Y">>
    /\ serverTickets[1].status = tickets[1].status
    /\ serverTickets[1].status # SeedTickets[1].status

\* what an operation hands to its caller: nothing (refresh), a ticket or
\* null (create, update), a boolean (remove); "raised" is not among them
ValueReturned(r) ==
    /\ r.outcome \in {"ok", "failed", "invalid"}
    /\ r.op \in {"refresh", "create", "update", "remove"}
    /\ r.op = "refresh" => r.ticket = Null /\ r.flag = FALSE
    /\ r.op \in {"create", "update"} =>
          /\ r.flag = FALSE
          /\ (r.ticket # Null) <=> (r.outcome = "ok")
    /\ r.op = "remove" =>
          /\ r.ticket = Null
          /\ r.flag <=> (r.outcome = "ok")

\* C20: every store operation completes by returning a value, for every
\* outcome of its remote call and for every validation failure; none
\* completes by raising an error to its caller.
C20_OperationsReturnNeverRaise ==
    [][/\ \A c \in calls :
             Resumed(c) => /\ ret'.cid = c.cid
                           /\ ret'.op = c.op
                           /\ ValueReturned(ret')
                           /\ RemoteCallFailed(responses[c.cid])
                                  <=> (ret'.outcome = "failed")
       /\ ret' # ret => ValueReturned(ret')
       /\ nOps' # nOps /\ calls' = calls => ret'.outcome = "invalid"]_vars

\* a remove whose request never reached the remote returned false
C20_Witness ==
    /\ ret.op = "remove"
    /\ ret.outcome = "failed"
    /\ ret.flag = FALSE
    /\ error = Some(NetworkErrorMessage)
    /\ serverTickets = SeedTickets

\* the elements of a list
Range(seq) == { seq[i] : i \in 1..Len(seq) }

\* sub occurs in s as a run of consecutive characters
OccursIn(sub, s) ==
    \E a \in 0..Len(s) : \E b \in a..Len(s) : SubSeq(s, a + 1, b) = sub

\* the ticket satisfies every filter field that is provided and not empty
Satisfies(t, f) ==
    /\ ("status" \in DOMAIN f /\ f.status # <<>>) => t.status \in Range(f.status)
    /\ ("priority" \in DOMAIN f /\ f.priority # <<>>)
          => t.priority \in Range(f.priority)
    /\ ("category" \in DOMAIN f /\ f.category # <<>>)
          => t.category \in Range(f.category)
    /\ ("csamName" \in DOMAIN f /\ f.csamName # <<>>)
          => t.csamName \in Range(f.csamName)
    /\ ("customerName" \in DOMAIN f /\ f.customerName # <<>>)
          => OccursIn(toLowerCase(f.customerName), toLowerCase(t.customerName))
    /\ ("assignedTo" \in DOMAIN f /\ f.assignedTo # "")
          => t.assignedTo = Some(f.assignedTo)
    /\ ("tags" \in DOMAIN f /\ f.tags # <<>>)
          => Range(f.tags) \cap Range(t.tags) # {}
    /\ ("search" \in DOMAIN f /\ f.search # <<>>)
          => OccursIn(toLowerCase(f.search),
                      toLowerCase(t.title \o <<" ">> \o t.description \o <<" ">>
                                  \o t.ticketId \o <<" ">> \o t.customerName
                                  \o <<" ">> \o t.csamName))

\* result is the subsequence of src made of the tickets at the positions keep
IsSubsequenceAt(result, src, keep) ==
    /\ Len(result) = Cardinality(keep)
    /\ \A k \in 1..Len(result) :
          result[k] = src[CHOOSE i \in keep :
                              Cardinality({ j \in keep : j <= i }) = k]

\* C21: the result of fetchTickets(filters) is exactly the subsequence of the
\* source collection made of the tickets that satisfy every provided
\* non-empty filter field, in the source's order, and the source collection
\* is not modified.
C21_FilteredViewIsExactSubsequence ==
    [][/\ source' = source
       /\ svc'.fn = "fetchTickets" /\ ~svc'.threw
          => LET f == IF svc'.filters = Null THEN EmptyObject
                      ELSE svc'.filters[1] IN
             IsSubsequenceAt(svc'.value, source,
                 { i \in 1..Len(source) : Satisfies(source[i], f) })]_vars

\* a filter on status, priority, tags and search kept the second of two tickets
C21_Witness ==
    /\ svc.fn = "fetchTickets"
    /\ ~svc.threw
    /\ svc.filters # Null
    /\ DOMAIN svc.filters[1] = {"status", "priority", "tags", "search"}
    /\ Len(source) = 2
    /\ svc.value = <<source[2]>>
    /\ source[1] # source[2]

\* C22: completionPercentage is 100 times the number of completed subtasks
\* divided by the number of subtasks, lies between 0 and 100, is 0 for a
\* ticket without subtasks, and computing it leaves the ticket as it was.
C22_CompletionPercentage ==
    [][/\ source' = source
       /\ svc'.fn = "withMetadata"
          => LET m == svc'.value[1]
                 t == Omit(m, MetadataFields)
                 total == Len(t.subtasks)
                 done == Cardinality({ i \in 1..total : t.subtasks[i].completed })
                 p == m.completionPercentage IN
             /\ t \in Range(source)
             /\ p.den > 0
             /\ 0 <= p.num /\ p.num <= 100 * p.den
             /\ total = 0 => p.num = 0
             /\ total > 0 => p.num * total = 100 * done * p.den]_vars

\* 2 of 4 subtasks are completed and the percentage is 50
C22_Witness ==
    /\ svc.fn = "withMetadata"
    /\ Len(svc.value[1].subtasks) = 4
    /\ svc.value[1].completedSubtasksCount = 2
    /\ svc.value[1].completionPercentage.num
          = 50 * svc.value[1].completionPercentage.den

\* C23: refresh calls that run one after the other, each issued when nothing
\* else is in flight, leave the local collection equal to the remote
\* collection every time, so the second produces what the first produced.
C23_SequentialRefreshEqualsRemote ==
    /\ ret.op = "refresh"
    /\ ret.outcome = "ok"
    /\ ret.cid = nOps
    /\ ~history.overlapped
    => tickets = serverTickets

\* the refresh of the mount and a second refresh both succeeded, one after the
\* other
C23_Witness ==
    /\ ret.cid = 2
    /\ ret.op = "refresh"
    /\ ret.outcome = "ok"
    /\ nOps = 2
    /\ ~history.overlapped
    /\ ~history.failed
    /\ tickets = serverTickets
    /\ Len(tickets) = Len(SeedTickets)

\* C24: when the update triggered by dropping a card fails, the board still
\* shows that ticket, with the status the store holds for it (the column it
\* was dragged from).
C24_FailedDropKeepsBoard ==
    [][\A c \in calls :
          /\ c.op = "update"
          /\ c.cid \in history.dropped
          /\ Resumed(c)
          /\ RemoteCallFailed(responses[c.cid])
          => /\ board' # Null
             /\ \A i \in 1..Len(board'[1]) :
                   board'[1][i].id = c.id
                   => \E j \in 1..Len(tickets') :
                         /\ tickets'[j].id = c.id
                         /\ tickets'[j].status = board'[1][i].status]_vars

\* C25: whenever no store operation is in flight and the board is on
\* screen, the tickets it displays are exactly the tickets the store holds.
C25_BoardShowsStore ==
    calls = {} /\ board # Null => board[1] = tickets

\* C26: once remove(id) has returned true, no ticket with that id is in the
\* local collection again.
C26_RemovedStaysRemoved ==
    \A id \in history.removed :
        \A i \in 1..Len(tickets) : tickets[i].id # id

\* C27: with the initial refresh done and no remote call failed so far,
\* whenever no store operation is in flight the local collection equals the
\* remote collection.
C27_QuiescentLocalEqualsRemote ==
    mounted /\ calls = {} /\ ~history.failed => tickets = serverTickets

\* C28: every ticket of the remote collection whose status is COMPLETED has a
\* non-null completedAt.
C28_CompletedHasCompletedAt ==
    \A i \in 1..Len(serverTickets) :
        serverTickets[i].status = "COMPLETED"
        => serverTickets[i].completedAt # Null

\* C29: getOverdueTickets returns exactly the tickets of the collection whose
\* deadline is before the current time and whose status is not COMPLETED.
C29_OverdueIsPastDeadlineNotCompleted ==
    svc.fn = "getOverdueTickets" /\ ~svc.threw
    => \A i \in 1..Len(source) :
          (source[i].deadline < svc.now /\ source[i].status # "COMPLETED")
          <=> source[i] \in Range(svc.value)

\* a refresh is suspended at its await
RefreshInFlight == \E c \in calls : c.op = "refresh"

\* C30: after activation, if every remote call gets a response or a failure,
\* loading eventually becomes false; it is false whenever no refresh is in
\* flight; and no step of create, update or remove changes it.
C30_LoadingSettles ==
    /\ mounted ~> ~loading
    /\ [](mounted /\ ~RefreshInFlight => ~loading)
    /\ [][(\/ \E c \in calls : c.op # "refresh" /\ Resumed(c)
           \/ /\ nOps' # nOps
              /\ ~\E c \in calls' \ calls : c.op = "refresh")
          => loading' = loading]_vars

\* the refresh of the mount succeeded, a second refresh failed, and loading
\* is false again
C30_Witness ==
    /\ mounted
    /\ ~loading
    /\ calls = {}
    /\ nOps = 2
    /\ ret.cid = 2
    /\ ret.op = "refresh"
    /\ ret.outcome = "failed"
    /\ tickets = SeedTickets

====
